---------------------------- MODULE Spec2Model ----------------------------
(***************************************************************************)
(* A run of sagemaker.ipynb, top to bottom, against the SageMaker SDK, the *)
(* gluon dataset loader and the platform behind them.                      *)
(*                                                                         *)
(* The kernel executes the statements of the code cells one after the      *)
(* other; a statement that is an SDK call is issued, stays in flight while *)
(* the SDK works (downloading files, uploading objects, polling a training *)
(* job or an endpoint) and then returns or raises.  An exception that no   *)
(* cell catches ends the run.  The platform (training jobs, endpoints)     *)
(* moves on its own, whether or not the notebook is still waiting.         *)
(***************************************************************************)
EXTENDS Naturals, Sequences, FiniteSets

VARIABLES
    pc,                 \* index in Program of the statement being executed
    inflight,           \* SDK calls issued by the notebook and not yet returned
    raised,             \* the exception shown in the notebook's output, or NoError
    failed,             \* the failures of SDK calls, in the order they happened
    issued,             \* the SDK calls issued so far, in order
    returned,           \* the SDK calls that returned normally, in order
    cellRuns,           \* how many times each code cell was started
    sagemaker_session,  \* kernel name `sagemaker_session`
    role,               \* kernel name `role`
    inputs,             \* kernel name `inputs`
    model,              \* kernel name `model`
    fs,                 \* local files (normalised paths)
    s3,                 \* objects in storage
    jobs,               \* training jobs on the platform
    endpoints           \* endpoints on the platform

vars == <<pc, inflight, raised, failed, issued, returned, cellRuns,
          sagemaker_session, role, inputs, model, fs, s3, jobs, endpoints>>

kernelNames == <<sagemaker_session, role, inputs, model>>
platform == <<s3, jobs, endpoints>>

(***************************************************************************)
(* Bounds of the environment: how many execution roles and how many        *)
(* default buckets the credentials of a run may resolve to.                *)
(***************************************************************************)
NumRoles == 2
NumBuckets == 2

Roles == 1..NumRoles
Buckets == 1..NumBuckets

(***************************************************************************)
(* The statements of the code cells, in notebook order.  `cell` is the     *)
(* index of the cell in the notebook (markdown cells 1, 4, 6, 8 are not    *)
(* executed), `first` marks the first statement of a cell.                 *)
(***************************************************************************)
ProgramSwapped ==
    << [stmt |-> "import",             cell |-> 0, first |-> TRUE],
       [stmt |-> "Session",            cell |-> 0, first |-> FALSE],
       [stmt |-> "get_execution_role", cell |-> 0, first |-> FALSE],
       [stmt |-> "MNIST_train",        cell |-> 2, first |-> TRUE],
       [stmt |-> "MNIST_test",         cell |-> 2, first |-> FALSE],
       [stmt |-> "MXNet",              cell |-> 5, first |-> TRUE],
       [stmt |-> "upload_data",        cell |-> 3, first |-> TRUE],
       [stmt |-> "fit",                cell |-> 7, first |-> TRUE],
       [stmt |-> "deploy",             cell |-> 9, first |-> TRUE] >>

ProgramNoDeploy ==
    << [stmt |-> "import",             cell |-> 0, first |-> TRUE],
       [stmt |-> "Session",            cell |-> 0, first |-> FALSE],
       [stmt |-> "get_execution_role", cell |-> 0, first |-> FALSE],
       [stmt |-> "MNIST_train",        cell |-> 2, first |-> TRUE],
       [stmt |-> "MNIST_test",         cell |-> 2, first |-> FALSE],
       [stmt |-> "upload_data",        cell |-> 3, first |-> TRUE],
       [stmt |-> "MXNet",              cell |-> 5, first |-> TRUE],
       [stmt |-> "fit",                cell |-> 7, first |-> TRUE] >>

Program ==
    << [stmt |-> "import",             cell |-> 0, first |-> TRUE],
       [stmt |-> "Session",            cell |-> 0, first |-> FALSE],
       [stmt |-> "get_execution_role", cell |-> 0, first |-> FALSE],
       [stmt |-> "MNIST_train",        cell |-> 2, first |-> TRUE],
       [stmt |-> "MNIST_test",         cell |-> 2, first |-> FALSE],
       [stmt |-> "upload_data",        cell |-> 3, first |-> TRUE],
       [stmt |-> "MXNet",              cell |-> 5, first |-> TRUE],
       [stmt |-> "fit",                cell |-> 7, first |-> TRUE],
       [stmt |-> "deploy",             cell |-> 9, first |-> TRUE] >>

CodeCells == {0, 2, 3, 5, 7, 9}

Done == pc = Len(Program) + 1

At(op) == pc <= Len(Program) /\ Program[pc].stmt = op

(***************************************************************************)
(* Values of the kernel names before their assignment, and the absence of  *)
(* an exception.                                                           *)
(***************************************************************************)
NoError == [call |-> "none", kind |-> "none"]
NoSession == [default_bucket |-> 0]
NoRole == 0
NoInputs == [bucket |-> 0, key |-> <<>>]
NoJob == 0
NoArtifact == [job |-> 0]
NoModel == [entry_point |-> "", role |-> 0, train_instance_count |-> 0,
            train_instance_type |-> "", hyperparameters |-> <<>>,
            latest_training_job |-> 0]

(***************************************************************************)
(* Paths.  A path is the sequence of its components; the notebook writes   *)
(* the dataset under './data/...' and uploads 'data', both relative to the *)
(* working directory.                                                      *)
(***************************************************************************)
Normalize(p) == SelectSeq(p, LAMBDA c : c # ".")

IsUnder(dir, f) == Len(dir) < Len(f) /\ SubSeq(f, 1, Len(dir)) = dir

RelPath(dir, f) == SubSeq(f, Len(dir) + 1, Len(f))

MnistRootMisplaced(train) ==
    IF train THEN <<".", "data", "train">> ELSE <<".", "test">>

MnistRoot(train) ==
    IF train THEN <<".", "data", "train">> ELSE <<".", "data", "test">>

\* The loader fetches the image file of the split, then its label file.
MnistNames(train) ==
    IF train THEN <<"train-images-idx3-ubyte.gz", "train-labels-idx1-ubyte.gz">>
             ELSE <<"t10k-images-idx3-ubyte.gz", "t10k-labels-idx1-ubyte.gz">>

MnistFile(train, i) == Append(Normalize(MnistRoot(train)), MnistNames(train)[i])

MnistFiles(train) == {MnistFile(train, i) : i \in 1..2}

IsTrain(op) == op = "MNIST_train"

UploadPath == <<"data">>
KeyPrefix == <<"data", "DEMO-mnist">>

UnderUploadPath(files) == {f \in files : IsUnder(Normalize(UploadPath), f)}

ObjectFor(b, f) ==
    [bucket |-> b, key |-> KeyPrefix \o RelPath(Normalize(UploadPath), f)]

S3Uri(b) == [bucket |-> b, key |-> KeyPrefix]

(***************************************************************************)
(* The estimator of cell 5.                                                *)
(***************************************************************************)
Hyperparameters ==
    [batch_size |-> 100, epochs |-> 5, learning_rate |-> "0.1",
     momentum |-> "0.9", log_interval |-> 100]

TrainInstanceCount == 1
InitialInstanceCount == 1

EstimatorRoleOther == IF role = 1 THEN 2 ELSE 1

EstimatorRole == role

\* what fit hands to the job as the user's hyperparameters: the estimator's
\* mapping as it stands (settings the SDK adds on its own behalf are not part
\* of the notebook and are not modelled)
JobHyperparametersExtended(m) ==
    [batch_size |-> m.hyperparameters.batch_size,
     epochs |-> m.hyperparameters.epochs,
     learning_rate |-> m.hyperparameters.learning_rate,
     momentum |-> m.hyperparameters.momentum,
     log_interval |-> m.hyperparameters.log_interval,
     num_gpus |-> 0]

JobHyperparameters(m) == m.hyperparameters

FitArgumentDefault == S3Uri(1)

FitArgument == inputs

\* fit(inputs) is called without wait=, whose default is to block
FitNoWait == FALSE

FitWait == TRUE

(***************************************************************************)
(* Execution discipline of the kernel.                                     *)
(***************************************************************************)
\* every statement is a synchronous call: the kernel stays on it until it returns
BlockingButFit(op) == op # "fit"

Blocking(op) == TRUE

\* no cell has a try/except: an exception propagates and ends the run
OnExceptionContinue(op) == "continue"

OnExceptionRetry(op) == "retry"

OnException(op) == "propagate"

\* the failures each call can end in
ErrorsOf(op) ==
    CASE op = "import" -> {"ImportError"}
      [] op \in {"Session", "get_execution_role", "upload_data"} ->
            {"AuthenticationFailure"}
      [] op \in {"MNIST_train", "MNIST_test"} -> {"DownloadFailed"}
      [] op = "MXNet" -> {}
      [] op = "fit" -> {"QuotaExhausted", "TrainingJobFailed"}
      [] op = "deploy" -> {"QuotaExhausted", "DeploymentFailed"}

Init ==
    /\ pc = 1
    /\ inflight = {}
    /\ raised = NoError
    /\ failed = <<>>
    /\ issued = <<>>
    /\ returned = <<>>
    /\ cellRuns = [c \in CodeCells |-> 0]
    /\ sagemaker_session = NoSession
    /\ role = NoRole
    /\ inputs = NoInputs
    /\ model = NoModel
    \* the dataset may be cached, wholly or in part, from an earlier download
    /\ fs \in SUBSET (MnistFiles(TRUE) \cup MnistFiles(FALSE))
    /\ s3 = {}
    /\ jobs = <<>>
    /\ endpoints = <<>>

(***************************************************************************)
(* The kernel's part of every statement.                                   *)
(***************************************************************************)
StartCell ==
    IF Program[pc].first
    THEN [cellRuns EXCEPT ![Program[pc].cell] = @ + 1]
    ELSE cellRuns

\* the statement at pc is an SDK call and the kernel enters it
Call(op) ==
    /\ raised = NoError
    /\ At(op)
    /\ op \notin inflight
    /\ inflight' = inflight \cup {op}
    /\ issued' = Append(issued, op)
    /\ cellRuns' = StartCell
    /\ pc' = IF Blocking(op) THEN pc ELSE pc + 1
    /\ UNCHANGED <<raised, failed, returned>>

\* the call returns normally and the kernel moves to the next statement
Return(op) ==
    /\ op \in inflight
    /\ inflight' = inflight \ {op}
    /\ returned' = Append(returned, op)
    /\ pc' = IF Blocking(op) THEN pc + 1 ELSE pc
    /\ UNCHANGED <<raised, failed, issued, cellRuns>>

\* while the SDK works inside a call the kernel does not move
Inside(op) ==
    /\ op \in inflight
    /\ UNCHANGED <<pc, inflight, raised, failed, issued, returned, cellRuns>>

LatestJob == model.latest_training_job

\* when a call can end in a given failure
CanFail(op, kind) ==
    CASE op = "fit" /\ kind = "QuotaExhausted" -> LatestJob = NoJob
      [] op = "fit" /\ kind = "TrainingJobFailed" ->
            /\ LatestJob # NoJob
            /\ jobs[LatestJob].status \in {"Failed", "Stopped"}
      [] op = "deploy" /\ kind = "QuotaExhausted" -> endpoints = <<>>
      [] op = "deploy" /\ kind = "DeploymentFailed" ->
            /\ endpoints # <<>>
            /\ endpoints[Len(endpoints)].status = "Failed"
      [] OTHER -> TRUE

\* the SDK call fails; nothing in the notebook handles the exception
Raise(op, kind) ==
    /\ op \in inflight
    /\ kind \in ErrorsOf(op)
    /\ CanFail(op, kind)
    /\ inflight' = inflight \ {op}
    /\ failed' = Append(failed, [call |-> op, kind |-> kind])
    /\ raised' = IF OnException(op) = "propagate"
                 THEN [call |-> op, kind |-> kind]
                 ELSE raised
    /\ pc' = IF Blocking(op) /\ OnException(op) = "continue" THEN pc + 1 ELSE pc
    /\ UNCHANGED <<issued, returned, cellRuns, kernelNames, fs, platform>>

(***************************************************************************)
(* Cell 0: imports, session, execution role.                               *)
(***************************************************************************)
ImportModules ==
    /\ raised = NoError
    /\ At("import")
    /\ cellRuns' = StartCell
    /\ pc' = pc + 1
    /\ UNCHANGED <<inflight, raised, failed, issued, returned,
                   kernelNames, fs, platform>>

ImportFails ==
    /\ raised = NoError
    /\ At("import")
    /\ cellRuns' = StartCell
    /\ raised' = [call |-> "import", kind |-> "ImportError"]
    /\ UNCHANGED <<pc, inflight, failed, issued, returned,
                   kernelNames, fs, platform>>

SessionCall ==
    /\ Call("Session")
    /\ UNCHANGED <<kernelNames, fs, platform>>

SessionReturn ==
    \E b \in Buckets :
        /\ Return("Session")
        /\ sagemaker_session' = [default_bucket |-> b]
        /\ UNCHANGED <<role, inputs, model, fs, platform>>

RoleCall ==
    /\ Call("get_execution_role")
    /\ UNCHANGED <<kernelNames, fs, platform>>

RoleReturn ==
    \E r \in Roles :
        /\ Return("get_execution_role")
        /\ role' = r
        /\ UNCHANGED <<sagemaker_session, inputs, model, fs, platform>>

(***************************************************************************)
(* Cell 2: the dataset loader, once per split.  A file already present is  *)
(* not fetched again.                                                      *)
(***************************************************************************)
MnistMissing(op) == {i \in 1..2 : MnistFile(IsTrain(op), i) \notin fs}

MnistCall(op) ==
    /\ Call(op)
    /\ UNCHANGED <<kernelNames, fs, platform>>

MnistDownload(op) ==
    /\ Inside(op)
    /\ MnistMissing(op) # {}
    /\ LET i == CHOOSE k \in MnistMissing(op) : \A l \in MnistMissing(op) : k <= l
       IN  fs' = fs \cup {MnistFile(IsTrain(op), i)}
    /\ UNCHANGED <<kernelNames, platform>>

MnistReturn(op) ==
    /\ Return(op)
    /\ MnistMissing(op) = {}
    /\ UNCHANGED <<kernelNames, fs, platform>>

(***************************************************************************)
(* Cell 3: upload of the directory 'data' under the key prefix.            *)
(***************************************************************************)
Bucket == sagemaker_session.default_bucket

NotUploaded == {f \in UnderUploadPath(fs) : ObjectFor(Bucket, f) \notin s3}

UploadCall ==
    /\ Call("upload_data")
    /\ UNCHANGED <<kernelNames, fs, platform>>

UploadObject ==
    /\ Inside("upload_data")
    /\ \E f \in NotUploaded : s3' = s3 \cup {ObjectFor(Bucket, f)}
    /\ UNCHANGED <<kernelNames, fs, jobs, endpoints>>

UploadReturn ==
    /\ Return("upload_data")
    /\ NotUploaded = {}
    /\ inputs' = S3Uri(Bucket)
    /\ UNCHANGED <<sagemaker_session, role, model, fs, platform>>

(***************************************************************************)
(* Cell 5: the estimator.  The constructor records its arguments and talks *)
(* to no service.                                                          *)
(***************************************************************************)
MXNetCall ==
    /\ Call("MXNet")
    /\ UNCHANGED <<kernelNames, fs, platform>>

MXNetReturn ==
    /\ Return("MXNet")
    /\ model' = [entry_point |-> "entry.py",
                 role |-> EstimatorRole,
                 train_instance_count |-> TrainInstanceCount,
                 train_instance_type |-> "ml.c4.xlarge",
                 hyperparameters |-> Hyperparameters,
                 latest_training_job |-> NoJob]
    /\ UNCHANGED <<sagemaker_session, role, inputs, fs, platform>>

(***************************************************************************)
(* Cell 7: fit submits the training job and waits for it.                  *)
(***************************************************************************)
FitCall ==
    /\ Call("fit")
    /\ UNCHANGED <<kernelNames, fs, platform>>

FitSubmit ==
    /\ Inside("fit")
    /\ LatestJob = NoJob
    /\ jobs' = Append(jobs, [role |-> model.role,
                             entry_point |-> model.entry_point,
                             instance_count |-> model.train_instance_count,
                             instance_type |-> model.train_instance_type,
                             hyperparameters |-> JobHyperparameters(model),
                             input |-> FitArgument,
                             status |-> "InProgress",
                             artifact |-> NoArtifact])
    /\ model' = [model EXCEPT !.latest_training_job = Len(jobs) + 1]
    /\ UNCHANGED <<sagemaker_session, role, inputs, fs, s3, endpoints>>

FitReturn ==
    /\ Return("fit")
    /\ LatestJob # NoJob
    /\ FitWait => jobs[LatestJob].status = "Completed"
    /\ UNCHANGED <<kernelNames, fs, platform>>

\* the platform runs the job to one of its final states
JobFinishes ==
    \E j \in 1..Len(jobs) :
        /\ jobs[j].status = "InProgress"
        /\ \/ jobs' = [jobs EXCEPT ![j].status = "Completed",
                                   ![j].artifact = [job |-> j]]
           \/ \E st \in {"Failed", "Stopped"} :
                 jobs' = [jobs EXCEPT ![j].status = st]
        /\ UNCHANGED <<pc, inflight, raised, failed, issued, returned, cellRuns,
                       kernelNames, fs, s3, endpoints>>

(***************************************************************************)
(* Cell 9: deploy creates an endpoint from the estimator's latest training *)
(* job and waits until it is in service.                                   *)
(***************************************************************************)
DeployCall ==
    /\ Call("deploy")
    /\ UNCHANGED <<kernelNames, fs, platform>>

DeployCreate ==
    /\ Inside("deploy")
    /\ endpoints = <<>>
    /\ LatestJob # NoJob
    /\ endpoints' = Append(endpoints,
                           [job |-> LatestJob,
                            model_data |-> jobs[LatestJob].artifact,
                            instance_count |-> InitialInstanceCount,
                            instance_type |-> "ml.m4.xlarge",
                            status |-> "Creating"])
    /\ UNCHANGED <<kernelNames, fs, s3, jobs>>

DeployReturn ==
    /\ Return("deploy")
    /\ endpoints # <<>>
    /\ endpoints[Len(endpoints)].status = "InService"
    /\ UNCHANGED <<kernelNames, fs, platform>>

\* the platform brings the endpoint into service, or fails to
EndpointFinishes ==
    \E e \in 1..Len(endpoints) :
        /\ endpoints[e].status = "Creating"
        /\ \E st \in {"InService", "Failed"} :
              endpoints' = [endpoints EXCEPT ![e].status = st]
        /\ UNCHANGED <<pc, inflight, raised, failed, issued, returned, cellRuns,
                       kernelNames, fs, s3, jobs>>

SdkCalls == {"Session", "get_execution_role", "MNIST_train", "MNIST_test",
             "upload_data", "MXNet", "fit", "deploy"}

Next ==
    \/ ImportModules
    \/ ImportFails
    \/ SessionCall
    \/ SessionReturn
    \/ RoleCall
    \/ RoleReturn
    \/ \E op \in {"MNIST_train", "MNIST_test"} : MnistCall(op)
    \/ \E op \in {"MNIST_train", "MNIST_test"} : MnistDownload(op)
    \/ \E op \in {"MNIST_train", "MNIST_test"} : MnistReturn(op)
    \/ UploadCall
    \/ UploadObject
    \/ UploadReturn
    \/ MXNetCall
    \/ MXNetReturn
    \/ FitCall
    \/ FitSubmit
    \/ FitReturn
    \/ JobFinishes
    \/ DeployCall
    \/ DeployCreate
    \/ DeployReturn
    \/ EndpointFinishes
    \/ \E op \in SdkCalls : \E kind \in ErrorsOf(op) : Raise(op, kind)

Spec == Init /\ [][Next]_vars

\* every call the SDK is inside eventually returns or raises, and the kernel
\* executes the next statement when it is free to
FairSpec == Spec /\ WF_vars(Next)

(***************************************************************************)
(* Vocabulary of the properties: the steps of the flow and the calls each  *)
(* one consists of.                                                        *)
(***************************************************************************)
Range(s) == {s[i] : i \in 1..Len(s)}

Count(s, x) == Cardinality({i \in 1..Len(s) : s[i] = x})

Flow == <<"acquire", "fetch", "upload", "construct", "submit", "deploy">>

StepOf(op) ==
    CASE op \in {"Session", "get_execution_role"} -> "acquire"
      [] op \in {"MNIST_train", "MNIST_test"} -> "fetch"
      [] op = "upload_data" -> "upload"
      [] op = "MXNet" -> "construct"
      [] op = "fit" -> "submit"
      [] op = "deploy" -> "deploy"

StepIndex(op) == CHOOSE i \in 1..Len(Flow) : Flow[i] = StepOf(op)

CallsOfStep(s) == {i \in 1..Len(issued) : StepOf(issued[i]) = s}

CallSites == <<"Session", "get_execution_role", "MNIST_train", "MNIST_test",
               "upload_data", "MXNet", "fit", "deploy">>

ModelDefined == model.entry_point # ""

Deployed == endpoints # <<>> /\ endpoints[Len(endpoints)].status = "InService"

\* C1: the calls of a run follow the flow acquire, fetch, upload, construct,
\* submit, deploy: no call of an earlier step follows a call of a later one, no
\* step is entered before the one before it, and a call is issued only after
\* the call before it has returned.
C1_FlowOrder ==
    /\ \A i, j \in 1..Len(issued) :
          i < j => StepIndex(issued[i]) <= StepIndex(issued[j])
    /\ \A j \in 1..Len(issued) :
          StepIndex(issued[j]) <= (IF j = 1 THEN 1 ELSE StepIndex(issued[j - 1]) + 1)
    /\ \A j \in 2..Len(issued) :
          j - 1 <= Len(returned) /\ returned[j - 1] = issued[j - 1]

C1_Witness ==
    /\ "deploy" \in inflight
    /\ Len(issued) = Len(CallSites)

\* C2: a failure of an SDK call reaches the notebook's output as the SDK's own
\* error, unchanged, and ends the run: the failed call is the last call issued,
\* a failed upload leaves no training job and a failed fit no endpoint.
C2_FailureSurfaced ==
    /\ Len(failed) <= 1
    /\ failed # <<>> =>
          /\ raised = failed[1]
          /\ inflight = {}
          /\ ~Done
          /\ issued[Len(issued)] = failed[1].call
          /\ failed[1].call = "upload_data" => jobs = <<>>
          /\ failed[1].call \in {"upload_data", "fit"} => endpoints = <<>>

C2_Witness ==
    /\ failed = <<[call |-> "fit", kind |-> "TrainingJobFailed"]>>
    /\ raised.kind = "TrainingJobFailed"

\* C3 as stated: every step of the flow issues exactly one SDK call.
C3_OneCallPerStep ==
    \A i \in 1..Len(Flow) : Cardinality(CallsOfStep(Flow[i])) <= 1

CallsPerStep(s) == IF s \in {"acquire", "fetch"} THEN 2 ELSE 1

StepOver(s) ==
    \/ Done
    \/ \E j \in 1..Len(issued) : \E i \in 1..Len(Flow) :
          Flow[i] = s /\ StepIndex(issued[j]) > i

\* C3, amended: the calls issued are a prefix of the call sites in notebook
\* order (no branch), no call site is issued twice (no retry), and a step that
\* is over has issued two calls if it is acquire or fetch and one otherwise.
C3_FixedCallsPerStep ==
    /\ Len(issued) <= Len(CallSites)
    /\ \A j \in 1..Len(issued) : j <= Len(CallSites) => issued[j] = CallSites[j]
    /\ \A op \in SdkCalls : Count(issued, op) <= 1
    /\ \A i \in 1..Len(Flow) :
          /\ Cardinality(CallsOfStep(Flow[i])) <= CallsPerStep(Flow[i])
          /\ StepOver(Flow[i]) =>
                Cardinality(CallsOfStep(Flow[i])) = CallsPerStep(Flow[i])

C3_Witness ==
    /\ failed # <<>>
    /\ failed[1].call = "upload_data"
    /\ Cardinality(CallsOfStep("acquire")) = 2
    /\ Cardinality(CallsOfStep("fetch")) = 2

\* C4: at most one SDK call of the notebook is in progress, and a call is
\* issued only when every call issued before it has returned or raised.
C4_OneCallInProgress ==
    /\ Cardinality(inflight) <= 1
    /\ Len(issued) = Len(returned) + Len(failed) + Cardinality(inflight)

C4_Witness ==
    /\ inflight = {"fit"}
    /\ jobs # <<>>
    /\ jobs[1].status = "InProgress"

\* C5: the estimator's hyperparameters, and the hyperparameters of the job fit
\* submits, have the keys batch_size, epochs, learning_rate, momentum and
\* log_interval and the values 100, 5, 0.1, 0.9 and 100.
C5_Given(h) ==
    /\ DOMAIN h = {"batch_size", "epochs", "learning_rate", "momentum",
                   "log_interval"}
    /\ h.batch_size = 100
    /\ h.epochs = 5
    /\ h.learning_rate = "0.1"
    /\ h.momentum = "0.9"
    /\ h.log_interval = 100

SuccessEnd ==
    /\ Done
    /\ inflight = {}
    /\ Deployed
    /\ \A c \in CodeCells : cellRuns[c] = 1

\* C6: a run in which nothing fails ends, after finitely many steps, past the
\* last cell with the endpoint in service and every code cell run once.
C6_Terminates ==
    /\ [](Done => SuccessEnd)
    /\ <>(raised # NoError \/ failed # <<>> \/ SuccessEnd)

C6_Witness ==
    /\ SuccessEnd
    /\ Len(returned) = Len(CallSites)

\* C7: deploy is invoked only when the estimator's training job has completed,
\* and an endpoint is created from the artifact of that completed job.
C7_DeployAfterTraining ==
    /\ "deploy" \in Range(issued) =>
          /\ "fit" \in Range(returned)
          /\ LatestJob # NoJob
          /\ jobs[LatestJob].status = "Completed"
    /\ \A e \in 1..Len(endpoints) :
          /\ endpoints[e].job = LatestJob
          /\ jobs[endpoints[e].job].status = "Completed"
          /\ endpoints[e].model_data # NoArtifact
          /\ endpoints[e].model_data = jobs[endpoints[e].job].artifact
          /\ endpoints[e].model_data.job = endpoints[e].job

C7_Witness ==
    /\ Deployed
    /\ jobs[endpoints[1].job].status = "Completed"

\* C8: the name inputs holds the location upload_data returned, unchanged, and
\* a training job has that location as its input, with the upload complete.
C8_FitInput ==
    /\ inputs # NoInputs =>
          /\ "upload_data" \in Range(returned)
          /\ inputs = [bucket |-> Bucket, key |-> <<"data", "DEMO-mnist">>]
    /\ \A j \in 1..Len(jobs) :
          /\ "upload_data" \in Range(returned)
          /\ jobs[j].input # NoInputs
          /\ jobs[j].input = inputs
          /\ \A f \in UnderUploadPath(fs) :
                [bucket |-> jobs[j].input.bucket,
                 key |-> jobs[j].input.key \o SubSeq(f, 2, Len(f))] \in s3

C8_Witness ==
    /\ jobs # <<>>
    /\ jobs[1].input.bucket = NumBuckets

SplitComplete(dir, train) ==
    \A i \in 1..2 : Append(dir, MnistNames(train)[i]) \in UnderUploadPath(fs)

\* C9: once upload_data is invoked, data/train holds the two files of the
\* train split and data/test the two files of the test split, and a returned
\* upload has stored all four.
C9_BothSplitsBeforeUpload ==
    /\ "upload_data" \in Range(issued) =>
          /\ SplitComplete(<<"data", "train">>, TRUE)
          /\ SplitComplete(<<"data", "test">>, FALSE)
    /\ "upload_data" \in Range(returned) =>
          Cardinality({o \in s3 : o.bucket = Bucket}) = 4

C9_Witness ==
    /\ "upload_data" \in inflight
    /\ s3 = {}

\* C10: a run creates at most one training job and at most one endpoint, no
\* more endpoints than completed jobs; the job runs under the role of the first
\* cell on 1 instance and the endpoint starts with 1 instance.
C10_OneJobOneEndpoint ==
    /\ Len(jobs) <= 1
    /\ Len(endpoints) <= 1
    /\ Len(endpoints) <=
          Cardinality({j \in 1..Len(jobs) : jobs[j].status = "Completed"})
    /\ \A j \in 1..Len(jobs) :
          /\ role \in Roles
          /\ jobs[j].role = role
          /\ jobs[j].instance_count = 1
    /\ \A e \in 1..Len(endpoints) : endpoints[e].instance_count = 1

C10_Witness ==
    /\ endpoints # <<>>
    /\ jobs[1].role = NumRoles
=============================================================================
